---- MODULE Spec2Model ----
(***************************************************************************)
(* Model of src/scraper.py: the content filter and link extractor          *)
(* (scraper / extract_next_links), the URL classifier (is_valid) and the   *)
(* analytics store with its snapshot file (load_analytics /                *)
(* save_analytics / generate_report).                                      *)
(*                                                                         *)
(* Strings the code inspects character by character (netloc, query) are    *)
(* turned into sequences of one-character strings, so that endswith and    *)
(* `in` are computed; path segments are whole strings drawn from a         *)
(* vocabulary and every regular expression of is_valid is a predicate on   *)
(* the segments.                                                           *)
(***************************************************************************)
EXTENDS Integers, Sequences, FiniteSets, TLC

VARIABLES
    analytics,              \* scraper.py:48  the in-memory analytics store
    snapshot,               \* the file ANALYTICS_FILE (scraper.py:17)
    subdomain_page_count,   \* scraper.py:19  per-run Counter netloc -> pages
    last,                   \* the last call made into the module and how it ended
    recorded,               \* history: multiset of the recordings held by analytics
    saved_recorded,         \* history: `recorded` as of the last successful save
    write_failed            \* history: a write of the file has failed in this run

vars ==
    <<analytics, snapshot, subdomain_page_count, last, recorded, saved_recorded, write_failed>>

-----------------------------------------------------------------------------
(* Python str primitives on character sequences *)

\* the characters of each string the code inspects character by character
CharsOf ==
       ("" :> <<>>)
    @@ (".uci.edu" :> <<".", "u", "c", "i", ".", "e", "d", "u">>)
    @@ ("1" :> <<"1">>)
    @@ ("2" :> <<"2">>)
    @@ ("Filter" :> <<"F", "i", "l", "t", "e", "r">>)
    @@ ("SortBy" :> <<"S", "o", "r", "t", "B", "y">>)
    @@ ("TAB" :> <<"T", "A", "B">>)
    @@ ("[ics.uci.edu" :> <<"[", "i", "c", "s", ".", "u", "c", "i", ".", "e", "d", "u">>)
    @@ ("action" :> <<"a", "c", "t", "i", "o", "n">>)
    @@ ("anchor=" :> <<"a", "n", "c", "h", "o", "r", "=">>)
    @@ ("cal" :> <<"c", "a", "l">>)
    @@ ("calendar" :> <<"c", "a", "l", "e", "n", "d", "a", "r">>)
    @@ ("comment" :> <<"c", "o", "m", "m", "e", "n", "t">>)
    @@ ("commentid" :> <<"c", "o", "m", "m", "e", "n", "t", "i", "d">>)
    @@ ("cs.uci.edu" :> <<"c", "s", ".", "u", "c", "i", ".", "e", "d", "u">>)
    @@ ("date" :> <<"d", "a", "t", "e">>)
    @@ ("day" :> <<"d", "a", "y">>)
    @@ ("device" :> <<"d", "e", "v", "i", "c", "e">>)
    @@ ("display" :> <<"d", "i", "s", "p", "l", "a", "y">>)
    @@ ("do" :> <<"d", "o">>)
    @@ ("do=media" :> <<"d", "o", "=", "m", "e", "d", "i", "a">>)
    @@ ("economics.uci.edu" :> <<"e", "c", "o", "n", "o", "m", "i", "c", "s", ".", "u", "c", "i", ".", "e", "d", "u">>)
    @@ ("example.com" :> <<"e", "x", "a", "m", "p", "l", "e", ".", "c", "o", "m">>)
    @@ ("filter" :> <<"f", "i", "l", "t", "e", "r">>)
    @@ ("format" :> <<"f", "o", "r", "m", "a", "t">>)
    @@ ("ical=" :> <<"i", "c", "a", "l", "=">>)
    @@ ("ics.uci.edu" :> <<"i", "c", "s", ".", "u", "c", "i", ".", "e", "d", "u">>)
    @@ ("ics.uci.edu.evil.com" :> <<"i", "c", "s", ".", "u", "c", "i", ".", "e", "d", "u", ".", "e", "v", "i", "l", ".", "c", "o", "m">>)
    @@ ("id" :> <<"i", "d">>)
    @@ ("informatics.uci.edu" :> <<"i", "n", "f", "o", "r", "m", "a", "t", "i", "c", "s", ".", "u", "c", "i", ".", "e", "d", "u">>)
    @@ ("media" :> <<"m", "e", "d", "i", "a">>)
    @@ ("mobile" :> <<"m", "o", "b", "i", "l", "e">>)
    @@ ("mode" :> <<"m", "o", "d", "e">>)
    @@ ("month" :> <<"m", "o", "n", "t", "h">>)
    @@ ("offset" :> <<"o", "f", "f", "s", "e", "t">>)
    @@ ("outlook-ical=" :> <<"o", "u", "t", "l", "o", "o", "k", "-", "i", "c", "a", "l", "=">>)
    @@ ("page" :> <<"p", "a", "g", "e">>)
    @@ ("physics.uci.edu" :> <<"p", "h", "y", "s", "i", "c", "s", ".", "u", "c", "i", ".", "e", "d", "u">>)
    @@ ("preview" :> <<"p", "r", "e", "v", "i", "e", "w">>)
    @@ ("print" :> <<"p", "r", "i", "n", "t">>)
    @@ ("q" :> <<"q">>)
    @@ ("q=" :> <<"q", "=">>)
    @@ ("query=" :> <<"q", "u", "e", "r", "y", "=">>)
    @@ ("reply" :> <<"r", "e", "p", "l", "y">>)
    @@ ("replyto" :> <<"r", "e", "p", "l", "y", "t", "o">>)
    @@ ("replytocom" :> <<"r", "e", "p", "l", "y", "t", "o", "c", "o", "m">>)
    @@ ("rev" :> <<"r", "e", "v">>)
    @@ ("rev=" :> <<"r", "e", "v", "=">>)
    @@ ("search=" :> <<"s", "e", "a", "r", "c", "h", "=">>)
    @@ ("section=" :> <<"s", "e", "c", "t", "i", "o", "n", "=">>)
    @@ ("share" :> <<"s", "h", "a", "r", "e">>)
    @@ ("show" :> <<"s", "h", "o", "w">>)
    @@ ("sort" :> <<"s", "o", "r", "t">>)
    @@ ("stat.uci.edu" :> <<"s", "t", "a", "t", ".", "u", "c", "i", ".", "e", "d", "u">>)
    @@ ("tab" :> <<"t", "a", "b">>)
    @@ ("time=" :> <<"t", "i", "m", "e", "=">>)
    @@ ("timestamp=" :> <<"t", "i", "m", "e", "s", "t", "a", "m", "p", "=">>)
    @@ ("tribe-bar-date" :> <<"t", "r", "i", "b", "e", "-", "b", "a", "r", "-", "d", "a", "t", "e">>)
    @@ ("v=" :> <<"v", "=">>)
    @@ ("version=" :> <<"v", "e", "r", "s", "i", "o", "n", "=">>)
    @@ ("view" :> <<"v", "i", "e", "w">>)
    @@ ("wiki" :> <<"w", "i", "k", "i">>)
    @@ ("wiki.ics.uci.edu" :> <<"w", "i", "k", "i", ".", "i", "c", "s", ".", "u", "c", "i", ".", "e", "d", "u">>)
    @@ ("www.cs.uci.edu" :> <<"w", "w", "w", ".", "c", "s", ".", "u", "c", "i", ".", "e", "d", "u">>)
    @@ ("www.ics.uci.edu" :> <<"w", "w", "w", ".", "i", "c", "s", ".", "u", "c", "i", ".", "e", "d", "u">>)
    @@ ("www.stat.uci.edu" :> <<"w", "w", "w", ".", "s", "t", "a", "t", ".", "u", "c", "i", ".", "e", "d", "u">>)
    @@ ("www.uci.edu" :> <<"w", "w", "w", ".", "u", "c", "i", ".", "e", "d", "u">>)
    @@ ("x" :> <<"x">>)
    @@ ("y" :> <<"y">>)
    @@ ("year" :> <<"y", "e", "a", "r">>)

\* a str as the sequence of its characters
Chars(s) == CharsOf[s]

\* s.endswith(suf)
EndsWith(s, suf) ==
    /\ Len(s) >= Len(suf)
    /\ SubSeq(s, Len(s) - Len(suf) + 1, Len(s)) = suf

\* sub in s
Contains(s, sub) ==
    \E i \in 0..(Len(s) - Len(sub)) : SubSeq(s, i + 1, i + Len(sub)) = sub

UpperToLower ==
    [A |-> "a", B |-> "b", C |-> "c", D |-> "d", E |-> "e", F |-> "f", G |-> "g",
     H |-> "h", I |-> "i", J |-> "j", K |-> "k", L |-> "l", M |-> "m", N |-> "n",
     O |-> "o", P |-> "p", Q |-> "q", R |-> "r", S |-> "s", T |-> "t", U |-> "u",
     V |-> "v", W |-> "w", X |-> "x", Y |-> "y", Z |-> "z"]

\* s.lower()
Lower(s) ==
    [i \in 1..Len(s) |-> IF s[i] \in DOMAIN UpperToLower THEN UpperToLower[s[i]] ELSE s[i]]

RECURSIVE SumLen(_)
\* total length of "/seg" for every segment of a path
SumLen(segs) ==
    IF segs = <<>> THEN 0 ELSE 1 + Len(Head(segs)) + SumLen(Tail(segs))

-----------------------------------------------------------------------------
(* URLs.  A URL string is kept in the pieces urlparse splits it into:       *)
(* scheme://netloc/path[/]?query#fragment.  `slash` says that the path ends *)
(* with "/".  A query is a sequence of parameters key[=val].                *)

Url(scheme, netloc, path, slash, query, fragment) ==
    [scheme |-> scheme, netloc |-> netloc, path |-> path, slash |-> slash,
     query |-> query, fragment |-> fragment]

\* the empty string '' (longest_page['url'] of the empty store)
EmptyStr == Url("", "", <<>>, FALSE, <<>>, "")

Param(key, val) == [key |-> key, eq |-> TRUE, val |-> val]
\* a parameter written without "=", as in "?sort"
BareParam(key) == [key |-> key, eq |-> FALSE, val |-> ""]

ParamString(p) == IF p.eq THEN Chars(p.key) \o <<"=">> \o Chars(p.val) ELSE Chars(p.key)

RECURSIVE QueryString(_)
\* parsed.query: the parameters joined by "&"
QueryString(q) ==
    IF q = <<>> THEN <<>>
    ELSE IF Len(q) = 1 THEN ParamString(q[1])
    ELSE ParamString(q[1]) \o <<"&">> \o QueryString(Tail(q))

\* len(url)
UrlLen(u) ==
      (IF u.scheme = "" THEN 0 ELSE Len(u.scheme) + 1)
    + (IF u.netloc = "" THEN 0 ELSE 2 + Len(u.netloc))
    + SumLen(u.path) + (IF u.slash THEN 1 ELSE 0)
    + (IF u.query = <<>> THEN 0 ELSE 1 + Len(QueryString(u.query)))
    + (IF u.fragment = "" THEN 0 ELSE 1 + Len(u.fragment))

\* urlparse(url) raises ValueError("Invalid IPv6 URL") when the netloc has one
\* square bracket without the other
UrlParseRaises(u) ==
    Contains(Chars(u.netloc), <<"[">>) # Contains(Chars(u.netloc), <<"]">>)

\* urldefrag(url)[0]
UrlDefrag(u) == [u EXCEPT !.fragment = ""]

\* parse_qs(parsed.query): keep_blank_values is off, so a parameter with no
\* value ("k=" or "k") is dropped; the result maps each kept key to its values
ParseQs(q) ==
    LET kept == {i \in 1..Len(q) : q[i].val # ""}
        keys == {q[i].key : i \in kept}
    IN  [k \in keys |-> {q[i].val : i \in {j \in kept : q[j].key = k}}]

-----------------------------------------------------------------------------
(* is_valid, scraper.py:179-314 *)

\* scraper.py:187-192
allowed_domains ==
    { "ics.uci.edu",
      "cs.uci.edu",
      "informatics.uci.edu",
      "stat.uci.edu" }

\* scraper.py:193  any(parsed.netloc.endswith(domain) for domain in allowed_domains)
NetlocAllowed(netloc) == \E domain \in allowed_domains : EndsWith(Chars(netloc), Chars(domain))

\* path_parts.count(folder)
Count(segs, folder) == Cardinality({i \in 1..Len(segs) : segs[i] = folder})

\* the character after segment i of the path is "/"
SlashAfter(u, i) == i < Len(u.path) \/ u.slash

(* The segment vocabulary, classified against the character classes the     *)
(* regular expressions of is_valid use.                                     *)
\* a segment of 90 letters, to build URLs longer than 100 characters
LongSeg == "abcdefghijklmnopqrstuvwxyzabcdefghijklmnopqrstuvwxyzabcdefghijklmnopqrstuvwxyzabcdefghijkl"
FourDigits == {"2024", "1999"}                       \* \d{4} and nothing else
TwoDigits == {"05", "01"}                            \* \d{2} and nothing else
TwoDigitStart == FourDigits \cup TwoDigits \cup {"2024-05-01", "42"}   \* \d{2}.*
DateStart == {"2024-05-01"}                          \* \d{4}-\d{2}-\d{2}.*
SeasonStart == {"spring-2024", "fall2023"}           \* (spring|fall|...)-?\d{4}.*
DigitStart == TwoDigitStart \cup {"3", "7"}          \* \d+.*
VersionStart == DigitStart \cup {"v2"}               \* v?\d+.*
EventSegs == {"event", "events", "calendar"}
EventViewSegs == {"day", "list", "month", "week", "category"}
UserSegs == {"author", "user", "profile", "member", "uid"}
ApiSegs == {"api", "rest", "endpoint", "service"}
GallerySegs == {"gallery", "photo", "image", "media"}
\* segments that end in a denylisted extension, scraper.py:301-308
ExtensionSegs == {"doc.pdf", "style.css", "data.zip"}
\* segments that are not wholly \w+
NonWordSegs == {"2024-05-01", "spring-2024", "fetch.php", "index.html", "wp-json",
                "wp-content", LongSeg} \cup ExtensionSegs

\* scraper.py:210  /\d{4}[-/]\d{2}[-/]\d{2}
DatePath(u) ==
    \E i \in 1..Len(u.path) :
        \/ u.path[i] \in DateStart
        \/ /\ i + 2 <= Len(u.path)
           /\ u.path[i] \in FourDigits
           /\ u.path[i + 1] \in TwoDigits
           /\ u.path[i + 2] \in TwoDigitStart

\* scraper.py:214  /\d{4}/
YearPath(u) == \E i \in 1..Len(u.path) : u.path[i] \in FourDigits /\ SlashAfter(u, i)

\* scraper.py:218
SeasonPath(u) == \E i \in 1..Len(u.path) : u.path[i] \in SeasonStart

\* scraper.py:222  /(events?|calendar)/(day|list|month|week|category)/
EventPath(u) ==
    \E i \in 1..(Len(u.path) - 1) :
        u.path[i] \in EventSegs /\ u.path[i + 1] \in EventViewSegs /\ SlashAfter(u, i + 1)

\* scraper.py:230  /lib/exe/fetch\.php
FetchPath(u) ==
    \E i \in 1..(Len(u.path) - 2) :
        u.path[i] = "lib" /\ u.path[i + 1] = "exe" /\ u.path[i + 2] = "fetch.php"

\* scraper.py:234  /page/\d+
PagePath(u) ==
    \E i \in 1..(Len(u.path) - 1) : u.path[i] = "page" /\ u.path[i + 1] \in DigitStart

\* scraper.py:238
UserPath(u) ==
    \E i \in 1..(Len(u.path) - 1) : u.path[i] \in UserSegs /\ u.path[i + 1] \in DigitStart

\* scraper.py:242
ApiPath(u) ==
    \E i \in 1..(Len(u.path) - 1) : u.path[i] \in ApiSegs /\ u.path[i + 1] \in VersionStart

\* scraper.py:246  /(gallery|photo|image|media)/\w+/\d+
GalleryPath(u) ==
    \E i \in 1..(Len(u.path) - 2) :
        /\ u.path[i] \in GallerySegs
        /\ u.path[i + 1] \notin NonWordSegs
        /\ u.path[i + 2] \in DigitStart

\* scraper.py:276
ui_tokens ==
    { "tab", "view", "mode", "do", "action", "sort",
      "filter", "page", "display", "show", "format" }

\* scraper.py:279-281
trap_params ==
    { "date", "cal", "calendar", "share", "replytocom", "print",
      "offset", "month", "year", "day", "replyto", "reply",
      "comment", "commentid", "mobile", "device" }

\* scraper.py:288-297  the trap patterns, each "/seg/" or "/seg/seg/"
TrapPath(u) ==
    \/ \E i \in 1..Len(u.path) :
           u.path[i] \in {"calendar", "wp-json", "feed", "print", "download"} /\ SlashAfter(u, i)
    \/ \E i \in 1..(Len(u.path) - 1) :
           u.path[i] = "wp-content" /\ u.path[i + 1] = "uploads" /\ SlashAfter(u, i + 1)

\* scraper.py:300-308  the extension pattern matches parsed.path.lower()
ExtensionPath(u) ==
    u.path # <<>> /\ ~u.slash /\ u.path[Len(u.path)] \in ExtensionSegs

\* how a call ends
Returned(v) == [raised |-> "", value |-> v]
Raised(e) == [raised |-> e, value |-> FALSE]

\* scraper.py:184-308, the rules after urlparse succeeded, in the code's order
\* `query` is parsed.query and `query_params` is parse_qs(parsed.query)
ValidRules(u, query, query_params) ==
        /\ u.scheme \in {"http", "https"}
        /\ NetlocAllowed(u.netloc)
        /\ \A i \in 1..Len(u.path) : Count(u.path, u.path[i]) < 3
        /\ Len(u.path) <= 5
        /\ UrlLen(u) <= 100
        /\ ~DatePath(u)
        /\ ~YearPath(u)
        /\ ~SeasonPath(u)
        /\ ~EventPath(u)
        /\ ~(Contains(Chars(u.netloc), Chars("wiki")) /\ Contains(query, Chars("rev=")))
        /\ ~FetchPath(u)
        /\ ~PagePath(u)
        /\ ~UserPath(u)
        /\ ~ApiPath(u)
        /\ ~GalleryPath(u)
        /\ ~Contains(query, Chars("do=media"))
        /\ ~Contains(query, Chars("tribe-bar-date"))
        /\ ~(Contains(query, Chars("ical=")) \/ Contains(query, Chars("outlook-ical=")))
        /\ ~(Contains(query, Chars("q=")) \/ Contains(query, Chars("search=")) \/ Contains(query, Chars("query=")))
        /\ ~(\/ Contains(query, Chars("v=")) \/ Contains(query, Chars("version="))
             \/ Contains(query, Chars("timestamp=")) \/ Contains(query, Chars("time=")))
        /\ ~(Contains(query, Chars("section=")) \/ Contains(query, Chars("anchor=")))
        /\ \A param_key \in DOMAIN query_params :
               ~\E ui \in ui_tokens : Contains(Lower(Chars(param_key)), Chars(ui))
        /\ ~\E param \in trap_params : param \in DOMAIN query_params
        /\ Cardinality(DOMAIN query_params) <= 2
        /\ ~TrapPath(u)
        /\ ~ExtensionPath(u)

\* scraper.py:179-314.  A ValueError of urlparse is not a TypeError, so the
\* except clause lets it through to the caller.
is_valid(u) ==
    IF UrlParseRaises(u)
    THEN Raised("ValueError")
    ELSE Returned(ValidRules(u, QueryString(u.query), ParseQs(u.query)))

-----------------------------------------------------------------------------
(* Counters and bags.  A collections.Counter is a function on the keys it   *)
(* holds; a missing key reads as 0 and is not inserted by the read.         *)

\* counter[k]
Get(counter, k) == IF k \in DOMAIN counter THEN counter[k] ELSE 0

\* counter[k] += n
Inc(counter, k, n) ==
    [x \in DOMAIN counter \cup {k} |-> Get(counter, x) + (IF x = k THEN n ELSE 0)]

\* Update with the counts assigned, as dict.update would, instead of added
Update_Assign(counter, bag) ==
    [x \in DOMAIN counter \cup DOMAIN bag |-> IF x \in DOMAIN bag THEN bag[x] ELSE counter[x]]

\* counter.update(words), words given as a bag
Update(counter, bag) ==
    [x \in DOMAIN counter \cup DOMAIN bag |-> Get(counter, x) + Get(bag, x)]

RECURSIVE SumOver(_, _)
\* the sum of f over the set S of its keys
SumOver(f, S) ==
    IF S = {} THEN 0
    ELSE LET x == CHOOSE y \in S : TRUE IN f[x] + SumOver(f, S \ {x})

\* len(list) of a list given as a bag
BagSize(bag) == SumOver(bag, DOMAIN bag)

-----------------------------------------------------------------------------
(* The analytics store and its snapshot file, scraper.py:17-48 *)

\* scraper.py:20
MAX_PAGES_PER_SUBDOMAIN == 2000

\* scraper.py:156  the checkpoint period
CHECKPOINT_EVERY == 100

\* scraper.py:119  the minimum number of filtered words
MIN_WORDS == 150

\* scraper.py:90  the 5MB limit
MAX_CONTENT == 5 * 1024 * 1024

\* scraper.py:29-35
EmptyAnalytics ==
    [unique_pages |-> {}, word_counts |-> <<>>, all_words |-> <<>>,
     subdomains |-> <<>>, longest_page |-> [url |-> EmptyStr, word_count |-> 0]]

\* the file does not exist
NoFile == [kind |-> "absent"]
\* the file was opened for writing (truncated) and the dump did not complete
CorruptFile == [kind |-> "corrupt"]
JsonFile(data) == [kind |-> "json", data |-> data]

RECURSIVE SetToList(_)
\* list(a_set): the elements in some order
SetToList(S) ==
    IF S = {} THEN <<>>
    ELSE LET x == CHOOSE y \in S : TRUE IN <<x>> \o SetToList(S \ {x})

\* set(a_list)
ListToSet(l) == {l[i] : i \in 1..Len(l)}

\* scraper.py:38-44  the JSON document save_analytics writes
SnapshotData(a) ==
    [unique_pages |-> SetToList(a.unique_pages),
     word_counts |-> a.word_counts,
     all_words |-> a.all_words,
     subdomains |-> a.subdomains,
     longest_page |-> a.longest_page]

\* scraper.py:37-46  the file after save_analytics(a); open() may fail, which
\* leaves the file as it was, or the dump may fail after open() truncated it
save_analytics(a, file, disk) ==
    CASE disk = "ok" -> JsonFile(SnapshotData(a))
      [] disk = "open_fails" -> file
      [] disk = "write_fails" -> CorruptFile

\* load_analytics that starts `subdomains` from an empty Counter
load_analytics_NoSubdomains(file) ==
    IF file.kind = "json"
    THEN [unique_pages |-> ListToSet(file.data.unique_pages),
          word_counts |-> file.data.word_counts,
          all_words |-> file.data.all_words,
          subdomains |-> <<>>,
          longest_page |-> file.data.longest_page]
    ELSE [unique_pages |-> {}, word_counts |-> <<>>, all_words |-> <<>>,
          subdomains |-> <<>>, longest_page |-> [url |-> Url("", "", <<>>, FALSE, <<>>, ""), word_count |-> 0]]

\* scraper.py:21-35  (a corrupt file makes json.load raise: no store is built)
load_analytics(file) ==
    IF file.kind = "json"
    THEN [unique_pages |-> ListToSet(file.data.unique_pages),
          word_counts |-> file.data.word_counts,
          all_words |-> file.data.all_words,
          subdomains |-> file.data.subdomains,
          longest_page |-> file.data.longest_page]
    ELSE EmptyAnalytics

-----------------------------------------------------------------------------
(* Pages.  A response carries the status, whether raw_response is there,    *)
(* len(content), the visible text as a bag of tokens, and the anchors (the  *)
(* <a href> elements) as a bag of hrefs.                                    *)

\* scraper.py:51-68
STOP_WORDS ==
    {"a", "about", "above", "after", "again", "against", "all", "am", "an", "and",
     "any", "are", "aren't", "as", "at", "be", "because", "been", "before", "being",
     "below", "between", "both", "but", "by", "can't", "cannot", "could", "couldn't",
     "did", "didn't", "do", "does", "doesn't", "doing", "don't", "down", "during",
     "each", "few", "for", "from", "further", "had", "hadn't", "has", "hasn't", "have",
     "haven't", "having", "he", "he'd", "he'll", "he's", "her", "here", "here's",
     "hers", "herself", "him", "himself", "his", "how", "how's", "i", "i'd", "i'll",
     "i'm", "i've", "if", "in", "into", "is", "isn't", "it", "it's", "its", "itself",
     "let's", "me", "more", "most", "mustn't", "my", "myself", "no", "nor", "not",
     "of", "off", "on", "once", "only", "or", "other", "ought", "our", "ours",
     "ourselves", "out", "over", "own", "same", "shan't", "she", "she'd", "she'll",
     "she's", "should", "shouldn't", "so", "some", "such", "than", "that", "that's",
     "the", "their", "theirs", "them", "themselves", "then", "there", "there's",
     "these", "they", "they'd", "they'll", "they're", "they've", "this", "those",
     "through", "to", "too", "under", "until", "up", "very", "was", "wasn't", "we",
     "we'd", "we'll", "we're", "we've", "were", "weren't", "what", "what's", "when",
     "when's", "where", "where's", "which", "while", "who", "who's", "whom", "why",
     "why's", "with", "won't", "would", "wouldn't", "you", "you'd", "you'll", "you're",
     "you've", "your", "yours", "yourself", "yourselves" }

\* scraper.py:114-117  re.findall(r'\b[a-z]{2,}\b', ...) keeps the tokens of two
\* letters or more; the stop words are then dropped
FilteredWords(text) ==
    LET keep == {w \in DOMAIN text : Len(w) >= 2 /\ w \notin STOP_WORDS}
    IN  [w \in keep |-> text[w]]

\* an anchor whose href is an absolute URL
Href(u) == [skip |-> FALSE, url |-> u]
\* scraper.py:165  an href that is empty, "#", javascript:, mailto: or tel:
SkippedHref == [skip |-> TRUE, url |-> EmptyStr]

\* scraper.py:161-171  the links of the page: None when urljoin raises
\* ValueError on an href (caught at scraper.py:173)
FoundUrls(anchors) ==
    LET hrefs == {h \in DOMAIN anchors : ~h.skip}
    IN  IF \E h \in hrefs : UrlParseRaises(h.url)
        THEN [raised |-> TRUE, urls |-> {}]
        ELSE [raised |-> FALSE, urls |-> {UrlDefrag(h.url) : h \in hrefs}]

\* RecordCounted without the comparison: the last page becomes the longest
RecordCounted_LastIsLongest(a, netloc, defragged_url, filtered_words, word_count) ==
    [unique_pages |-> a.unique_pages \cup {defragged_url},
     word_counts |-> [u \in DOMAIN a.word_counts \cup {defragged_url} |->
                         IF u = defragged_url THEN word_count ELSE a.word_counts[u]],
     all_words |-> Update(a.all_words, filtered_words),
     longest_page |-> [url |-> defragged_url, word_count |-> word_count],
     subdomains |-> IF EndsWith(Chars(netloc), Chars(".uci.edu"))
                    THEN Inc(a.subdomains, netloc, 1)
                    ELSE a.subdomains]

\* scraper.py:137-153  the store after the updates for an accepted page
RecordCounted(a, netloc, defragged_url, filtered_words, word_count) ==
    [unique_pages |-> a.unique_pages \cup {defragged_url},
     word_counts |-> [u \in DOMAIN a.word_counts \cup {defragged_url} |->
                         IF u = defragged_url THEN word_count ELSE a.word_counts[u]],
     all_words |-> Update(a.all_words, filtered_words),
     longest_page |-> IF word_count > a.longest_page.word_count
                      THEN [url |-> defragged_url, word_count |-> word_count]
                      ELSE a.longest_page,
     subdomains |-> IF EndsWith(Chars(netloc), Chars(".uci.edu"))
                    THEN Inc(a.subdomains, netloc, 1)
                    ELSE a.subdomains]

\* RecordPage keyed by the URL as fetched, fragment included
RecordPage_NoDefrag(a, url, filtered_words) ==
    RecordCounted(a, url.netloc, url, filtered_words, BagSize(filtered_words))

\* scraper.py:136-153  the analytics collection for the page fetched from url
RecordPage(a, url, filtered_words) ==
    RecordCounted(a, url.netloc, UrlDefrag(url), filtered_words, BagSize(filtered_words))

-----------------------------------------------------------------------------
(* extract_next_links and scraper, scraper.py:70-177 *)

\* a return of extract_next_links that leaves every piece of state alone
Rejected(reason) ==
    [analytics |-> analytics, snapshot |-> snapshot,
     subdomain_page_count |-> subdomain_page_count,
     raised |-> "", links |-> {}, reason |-> reason, saved |-> "none", accepted |-> FALSE]

\* LimitReached with > for >=
LimitReached_Late(count) == count > MAX_PAGES_PER_SUBDOMAIN

\* scraper.py:96  the per-subdomain cap is reached
LimitReached(count) == count >= MAX_PAGES_PER_SUBDOMAIN

\* scraper.py:125-126  link_density > 0.3, with link_density = links / words
HighLinkDensity(links, words) == 10 * links > 3 * words

\* CheckpointDue tested as if the page were still to be added
CheckpointDue_Early(a) == (Cardinality(a.unique_pages) + 1) % CHECKPOINT_EVERY = 0

\* scraper.py:156  the periodic checkpoint is due
CheckpointDue(a) == Cardinality(a.unique_pages) % CHECKPOINT_EVERY = 0

\* scraper.py:156-177  the checkpoint and the link loop, given the store `a`
\* and the counter `count` after the updates, and the links `found`
CheckpointAndLinks(a, count, due, found, disk) ==
    [analytics |-> a,
     snapshot |-> IF due THEN save_analytics(a, snapshot, disk) ELSE snapshot,
     subdomain_page_count |-> count,
     raised |-> "",
     \* save_analytics raising OSError, or urljoin raising ValueError, is
     \* caught at scraper.py:173 and the call returns list()
     links |-> IF (due /\ disk # "ok") \/ found.raised THEN {} ELSE found.urls,
     reason |-> IF due /\ disk # "ok" THEN "save_error"
                ELSE IF found.raised THEN "link_error" ELSE "accepted",
     saved |-> IF ~due THEN "none" ELSE IF disk = "ok" THEN "ok" ELSE "failed",
     accepted |-> TRUE]

\* scraper.py:130-177  the page passed the content filter
AcceptPage(url, resp, filtered_words, disk) ==
    CheckpointAndLinks(RecordPage(analytics, url, filtered_words),
                       Inc(subdomain_page_count, url.netloc, 1),
                       CheckpointDue(RecordPage(analytics, url, filtered_words)),
                       FoundUrls(resp.anchors), disk)

\* FilterPage that updates the store before it tests the word count
FilterPage_RecordFirst(url, resp, filtered_words, word_count, disk) ==
    IF word_count < MIN_WORDS
    THEN [Rejected("low_information") EXCEPT
              !.analytics = RecordPage(analytics, url, filtered_words)]
    ELSE IF HighLinkDensity(BagSize(resp.anchors), word_count)
    THEN Rejected("link_density")
    ELSE AcceptPage(url, resp, filtered_words, disk)

\* scraper.py:119-177  the content filter on the filtered words
FilterPage(url, resp, filtered_words, word_count, disk) ==
    IF word_count < MIN_WORDS
    THEN Rejected("low_information")
    ELSE IF HighLinkDensity(BagSize(resp.anchors), word_count)
    THEN Rejected("link_density")
    ELSE AcceptPage(url, resp, filtered_words, disk)

\* scraper.py:74-177
extract_next_links(url, resp, disk) ==
    IF resp.status # 200 \/ ~resp.raw_response \/ resp.size = 0
    THEN Rejected("no_content")
    ELSE IF resp.size > MAX_CONTENT
    THEN Rejected("too_large")
    ELSE IF UrlParseRaises(url)
    THEN \* scraper.py:95 is outside the try block
         [Rejected("url_error") EXCEPT !.raised = "ValueError"]
    ELSE IF LimitReached(Get(subdomain_page_count, url.netloc))
    THEN Rejected("limit")
    ELSE IF resp.soup_raises
    THEN Rejected("parse_error")
    ELSE FilterPage(url, resp, FilteredWords(resp.text),
                    BagSize(FilteredWords(resp.text)), disk)

\* scraper.py:72  [link for link in links if is_valid(link)]: the exception
\* is_valid lets through, or the links it accepts
Filtered(links, verdict) ==
    IF \E link \in links : verdict[link].raised # ""
    THEN Raised("ValueError")
    ELSE Returned({link \in links : verdict[link].value})

ValidLinks(links) == Filtered(links, [link \in links |-> is_valid(link)])

\* scraper.py:70-72  one call of scraper(url, resp); `disk` is how a write of
\* the snapshot file would go during this call
scraper(url, resp, disk) ==
    \E r \in {extract_next_links(url, resp, disk)} :
    \E out \in {IF r.raised # "" THEN Raised(r.raised) ELSE ValidLinks(r.links)} :
        /\ analytics' = r.analytics
        /\ snapshot' = r.snapshot
        /\ subdomain_page_count' = r.subdomain_page_count
        /\ last' = [op |-> "scraper", url |-> url, resp |-> resp, raised |-> out.raised,
                    value |-> IF out.raised # "" THEN {} ELSE out.value,
                    reason |-> r.reason, saved |-> r.saved]
        /\ recorded' = IF r.accepted
                       THEN Inc(recorded, [url |-> url, words |-> FilteredWords(resp.text)], 1)
                       ELSE recorded
        /\ saved_recorded' = IF r.saved = "ok" THEN recorded' ELSE saved_recorded
        /\ write_failed' = (write_failed \/ r.saved = "failed")

\* scraper.py:316-356  generate_report(): the forced save, then the report text
generate_report(disk) ==
    /\ snapshot' = save_analytics(analytics, snapshot, disk)
    /\ last' = [op |-> "generate_report", raised |-> IF disk = "ok" THEN "" ELSE "OSError"]
    /\ saved_recorded' = IF disk = "ok" THEN recorded ELSE saved_recorded
    /\ write_failed' = (write_failed \/ disk # "ok")
    /\ UNCHANGED <<analytics, subdomain_page_count, recorded>>

\* scraper.py:19, 48  the process starts again: the module is imported, the
\* counter is new and the store is loaded from the file
Restart ==
    /\ snapshot.kind # "corrupt"
    /\ analytics' = load_analytics(snapshot)
    /\ subdomain_page_count' = <<>>
    /\ last' = [op |-> "import"]
    /\ recorded' = IF snapshot.kind = "json" THEN saved_recorded ELSE <<>>
    /\ write_failed' = FALSE
    /\ UNCHANGED <<snapshot, saved_recorded>>

\* a direct call of is_valid(url), for the URL the caller holds
IsValidCall(url) ==
    /\ last = [op |-> "candidate", url |-> url]
    /\ last' = [op |-> "is_valid", url |-> url, raised |-> is_valid(url).raised,
                value |-> is_valid(url).value]
    /\ UNCHANGED <<analytics, snapshot, subdomain_page_count, recorded, saved_recorded,
                   write_failed>>

\* scraper.py:17-48  the module has been imported and no snapshot file exists
Init ==
    /\ snapshot = NoFile
    /\ analytics = load_analytics(NoFile)
    /\ subdomain_page_count = <<>>
    /\ last = [op |-> "import"]
    /\ recorded = <<>>
    /\ saved_recorded = <<>>
    /\ write_failed = FALSE

-----------------------------------------------------------------------------
(* The environment: the URLs, pages and disk outcomes the calls draw from *)

WWW_ICS == "www.ics.uci.edu"
WWW_CS == "www.cs.uci.edu"
PHYSICS == "physics.uci.edu"
EXAMPLE_COM == "example.com"
UNCLOSED == "[ics.uci.edu"

Disk == {"ok", "open_fails", "write_fails"}

Page(netloc, seg, fragment) == Url("https", netloc, <<seg>>, FALSE, <<>>, fragment)

\* hrefs found on pages
InScopeLink == Url("https", WWW_ICS, <<"research">>, FALSE, <<>>, "")
OutOfScopeLink == Url("https", EXAMPLE_COM, <<"research">>, FALSE, <<>>, "")
TrapLink == Url("https", WWW_ICS, <<"events", "2024-05-01">>, TRUE, <<>>, "")
UnclosedLink == Url("http", UNCLOSED, <<"a">>, FALSE, <<>>, "")

\* n anchors: one to each of the links in `urls`, the rest to InScopeLink
\* with a fragment; `skipped` more anchors have an href the loop skips
Anchors(urls, n, skipped) ==
    LET frag == Href([InScopeLink EXCEPT !.fragment = "top"])
        dom == {Href(u) : u \in urls} \cup {frag}
                   \cup (IF skipped > 0 THEN {SkippedHref} ELSE {})
    IN  [h \in dom |-> IF h = SkippedHref THEN skipped
                       ELSE IF h = frag THEN n - Cardinality(urls) ELSE 1]

FewLinks == Anchors({InScopeLink, OutOfScopeLink, TrapLink}, 4, 2)

Resp(status, raw, size, soup_raises, text, anchors) ==
    [status |-> status, raw_response |-> raw, size |-> size, soup_raises |-> soup_raises,
     text |-> text, anchors |-> anchors]

\* 150 filtered words: the stop word and the one-letter token do not count
TextA == [the |-> 40, x |-> 5, data |-> 100, web |-> 50]
\* 300 filtered words
TextB == [data |-> 120, science |-> 180, of |-> 10]
\* 200 filtered words
TextC == [web |-> 200]
\* 149 filtered words
TextShort == [the |-> 500, data |-> 100, web |-> 49]

PageA == Resp(200, TRUE, 4000, FALSE, TextA, FewLinks)
PageB == Resp(200, TRUE, 9000, FALSE, TextB, FewLinks)
\* 60 anchors on 200 words: link density exactly 0.3, accepted
PageEdge == Resp(200, TRUE, MAX_CONTENT, FALSE, TextC, Anchors({InScopeLink}, 58, 2))
\* 61 anchors on 200 words
PageDense == Resp(200, TRUE, 4000, FALSE, TextC, Anchors({InScopeLink}, 59, 2))
PageShort == Resp(200, TRUE, 4000, FALSE, TextShort, FewLinks)
PageNotFound == Resp(404, TRUE, 4000, FALSE, TextA, FewLinks)
PageNoResponse == Resp(200, FALSE, 0, FALSE, <<>>, <<>>)
PageEmpty == Resp(200, TRUE, 0, FALSE, <<>>, <<>>)
PageTooLarge == Resp(200, TRUE, MAX_CONTENT + 1, FALSE, TextB, FewLinks)
PageUnparsable == Resp(200, TRUE, 4000, TRUE, TextA, FewLinks)
PageBadLink == Resp(200, TRUE, 4000, FALSE, TextA, Anchors({InScopeLink, UnclosedLink}, 3, 0))

RejectedPages ==
    {PageDense, PageShort, PageNotFound, PageNoResponse, PageEmpty, PageTooLarge}

\* the number of recordings the store holds
Recordings == BagSize(recorded)

-----------------------------------------------------------------------------
(* Spec: any calls, on a few URLs and pages, until the store holds          *)
(* MaxRecorded recordings; reports and restarts at any time.  The store     *)
(* stays below CHECKPOINT_EVERY pages, so only generate_report writes the   *)
(* file, and that write may fail.                                           *)

MaxRecorded == 2

Urls ==
    { Page(WWW_ICS, "about", ""), Page(WWW_ICS, "about", "top"), Page(WWW_CS, "a", ""),
      Page(EXAMPLE_COM, "a", "") }

Pages == {PageA, PageB, PageEdge}

ScraperStep ==
    \E url \in Urls, resp \in Pages :
        Recordings < MaxRecorded /\ scraper(url, resp, "ok")

ReportStep == \E disk \in Disk : generate_report(disk)

Next == ScraperStep \/ ReportStep \/ Restart

Spec == Init /\ [][Next]_vars

-----------------------------------------------------------------------------
(* SpecRun: one run that crawls a host up to the cap of                     *)
(* MAX_PAGES_PER_SUBDOMAIN pages, with every kind of rejected page, and     *)
(* at most MaxOther pages of a second host.  The two URLs never bring the   *)
(* store to CHECKPOINT_EVERY pages, so no write of the file is attempted.   *)

MaxOther == 1

RunUrls == {Page(WWW_ICS, "about", ""), Page(WWW_CS, "a", "")}

RunPages == RejectedPages \cup {PageA}

RunStep ==
    \E url \in RunUrls, resp \in RunPages :
        /\ url.netloc = WWW_ICS \/ Get(subdomain_page_count, url.netloc) < MaxOther
        /\ scraper(url, resp, "ok")

NextRun == RunStep

SpecRun == Init /\ [][NextRun]_vars

-----------------------------------------------------------------------------
(* SpecCrawl: one run that accepts the pages /p1, /p2, ... of a host in     *)
(* order, up to MaxCrawl of them, with at most MaxRevisits accepted calls   *)
(* for the already recorded /p1, and a disk that may fail on any write.     *)
(* Pages that are rejected, that the parser fails on or that carry a        *)
(* malformed link come at any time, and so does a malformed URL, which no   *)
(* fetch gets a page for.                                                   *)

MaxCrawl == 101
MaxRevisits == 2

CrawlUrl(i) == Page(WWW_ICS, "p" \o ToString(i), "")

CrawlPages == {PageA, PageShort, PageUnparsable, PageBadLink}

CrawlStep ==
    LET k == Cardinality(analytics.unique_pages)
        new == IF k < MaxCrawl THEN {k + 1} ELSE {}
        visits == Get(recorded, [url |-> CrawlUrl(1), words |-> FilteredWords(PageA.text)])
        again == IF k >= 1 /\ visits - 1 < MaxRevisits THEN {1} ELSE {}
    IN  \/ \E i \in new \cup again, resp \in CrawlPages, disk \in Disk :
               scraper(CrawlUrl(i), resp, disk)
        \/ scraper(Page(UNCLOSED, "a", ""), PageNotFound, "ok")

NextCrawl == CrawlStep

SpecCrawl == Init /\ [][NextCrawl]_vars

-----------------------------------------------------------------------------
(* SpecValid: is_valid applied to each URL of a bounded set *)

Schemes == {"http", "https", "ftp"}

Netlocs ==
    { WWW_ICS, "ics.uci.edu", "cs.uci.edu", "www.stat.uci.edu", "informatics.uci.edu", "wiki.ics.uci.edu",
      PHYSICS, "economics.uci.edu", "www.uci.edu", EXAMPLE_COM, "ics.uci.edu.evil.com", UNCLOSED }

Paths ==
    { <<>>, <<"about">>, <<"a", "b", "a", "b", "a">>, <<"a", "b", "c", "d", "e", "f">>,
      <<LongSeg>>, <<"events", "2024-05-01">>, <<"2024", "news">>, <<"2024", "05", "01">>,
      <<"spring-2024">>, <<"events", "day">>, <<"lib", "exe", "fetch.php">>,
      <<"page", "3">>, <<"author", "42">>, <<"api", "v2">>, <<"gallery", "x", "7">>,
      <<"feed">>, <<"wp-content", "uploads", "doc.pdf">>, <<"data.zip">>, <<"index.html">> }

Queries ==
    { <<>>, <<Param("id", "1")>>, <<Param("sort", "1")>>, <<Param("sort", "")>>,
      <<BareParam("sort")>>, <<Param("SortBy", "1")>>, <<Param("q", "1")>>,
      <<Param("rev", "1")>>, <<Param("do", "media")>>, <<Param("date", "1")>>,
      <<Param("id", "1"), Param("x", "1"), Param("y", "1")>>,
      <<Param("id", "1"), Param("x", "1"), Param("y", "")>>,
      <<Param("Filter", "x")>>, <<Param("page", "2")>>, <<Param("preview", "")>>,
      <<Param("id", "1"), BareParam("TAB")>> }

ValidUrls ==
    { Url(s, n, p, sl, q, "") :
        s \in Schemes, n \in Netlocs, p \in Paths, sl \in BOOLEAN, q \in Queries }

\* the module is imported and the caller holds a candidate URL
InitValid ==
    /\ snapshot = NoFile
    /\ analytics = load_analytics(NoFile)
    /\ subdomain_page_count = <<>>
    /\ \E url \in ValidUrls : last = [op |-> "candidate", url |-> url]
    /\ recorded = <<>>
    /\ saved_recorded = <<>>
    /\ write_failed = FALSE

ValidStep == last.op = "candidate" /\ IsValidCall(last.url)

NextValid == ValidStep

SpecValid == InitValid /\ [][NextValid]_vars

-----------------------------------------------------------------------------
(* The properties checked *)

RECURSIVE MaxOf(_)
\* max of a finite set of naturals, 0 when empty
MaxOf(S) ==
    IF S = {} THEN 0
    ELSE LET x == CHOOSE y \in S : TRUE
             m == MaxOf(S \ {x})
         IN  IF x > m THEN x ELSE m

\* the number of filtered words of a response
WordCount(resp) == BagSize(FilteredWords(resp.text))

\* the conditions under which a page is not accepted, on the arguments of the
\* call and the counter before it
NotAccepted(url, resp, counter) ==
    \/ resp.status # 200
    \/ ~resp.raw_response
    \/ resp.size = 0
    \/ resp.size > 5 * 1024 * 1024
    \/ Get(counter, url.netloc) >= 2000
    \/ WordCount(resp) < 150
    \/ 10 * BagSize(resp.anchors) > 3 * WordCount(resp)

\* the page is accepted by the content filter
Accepted(url, resp, counter) ==
    ~NotAccepted(url, resp, counter) /\ ~resp.soup_raises /\ ~UrlParseRaises(url)

\* the links of a page that is_valid accepts
LinksOf(resp) == {link \in FoundUrls(resp.anchors).urls : is_valid(link) = Returned(TRUE)}

\* C1: a scraper call whose page is not accepted (status not 200, content
\* absent, empty or over 5 MB, host at the cap, fewer than 150 filtered words,
\* link density over 0.3) returns an empty list and changes neither the
\* analytics store, nor the snapshot file, nor subdomain_page_count.
C1_RejectedPageChangesNothing ==
    [][(last'.op = "scraper" /\ NotAccepted(last'.url, last'.resp, subdomain_page_count))
          => /\ last'.raised = ""
             /\ last'.value = {}
             /\ UNCHANGED <<analytics, snapshot, subdomain_page_count>>]_vars

\* C1 witness: a page that passes the content filter is turned down at the cap,
\* after pages of every other rejected kind left the store as it was
C1_Witness ==
    /\ last.op = "scraper"
    /\ last.resp = PageA
    /\ last.reason = "limit"
    /\ last.value = {}
    /\ Cardinality(analytics.unique_pages) = 1

\* C2 as claimed: longest_page.word_count is the maximum over word_counts and
\* longest_page.url is a key of word_counts holding it.
C2_LongestIsMaxOfWordCounts ==
    LET wc == analytics.word_counts
        longest == analytics.longest_page
    IN  /\ longest.word_count = MaxOf({wc[u] : u \in DOMAIN wc})
        /\ DOMAIN wc # {} => (longest.url \in DOMAIN wc /\ wc[longest.url] = longest.word_count)

\* no defragmented URL has been recorded more than once
RecordedOnce ==
    \A r1, r2 \in DOMAIN recorded :
        UrlDefrag(r1.url) = UrlDefrag(r2.url) => (r1 = r2 /\ recorded[r1] = 1)

\* C2 amended: longest_page.word_count is the maximum word count over all the
\* recordings (0 when there is none), so no entry of word_counts exceeds it,
\* and longest_page.url is the defragmented URL of a recording with that
\* count; while no URL has been recorded twice it is the maximum of
\* word_counts, held by the key longest_page.url.
C2_LongestIsMaxRecorded ==
    LET longest == analytics.longest_page
    IN  /\ longest.word_count = MaxOf({BagSize(r.words) : r \in DOMAIN recorded})
        /\ \A u \in DOMAIN analytics.word_counts :
               analytics.word_counts[u] <= longest.word_count
        /\ IF recorded = <<>>
           THEN longest.url = EmptyStr
           ELSE \E r \in DOMAIN recorded :
                    UrlDefrag(r.url) = longest.url /\ BagSize(r.words) = longest.word_count
        /\ RecordedOnce => C2_LongestIsMaxOfWordCounts

\* C2 witness: the longest page was recorded again with fewer words
C2_Witness ==
    /\ analytics.longest_page.url \in DOMAIN analytics.word_counts
    /\ analytics.word_counts[analytics.longest_page.url] < analytics.longest_page.word_count

\* C3 as claimed: the size of unique_pages is the number of accepted calls.
C3_SizeIsAcceptedCalls == Cardinality(analytics.unique_pages) = Recordings

\* C3 amended: the size of unique_pages is the number of distinct
\* defragmented URLs among the accepted calls, at most the number of accepted
\* calls, and no scraper call decreases it.
C3_SizeIsDistinctAccepted ==
    /\ [](/\ Cardinality(analytics.unique_pages)
                = Cardinality({UrlDefrag(r.url) : r \in DOMAIN recorded})
          /\ Cardinality(analytics.unique_pages) <= Recordings)
    /\ [][last'.op = "scraper"
             => Cardinality(analytics'.unique_pages) >= Cardinality(analytics.unique_pages)]_vars

\* C3 witness: two accepted calls for one defragmented URL, with and without
\* the fragment
C3_Witness ==
    /\ Recordings = 2
    /\ Cardinality(DOMAIN recorded) = 2
    /\ Cardinality(analytics.unique_pages) = 1

\* C4 as claimed: when the checkpoint write fails, the call still returns the
\* page's links that is_valid accepts.
C4_WriteFailureKeepsLinks ==
    (last.op = "scraper" /\ last.saved = "failed")
        => (last.raised = "" /\ last.value = LinksOf(last.resp))

\* C5 as claimed: is_valid never ends by raising.
C5_IsValidNeverRaises == last.op = "is_valid" => last.raised = ""

\* the number of unique pages of the store that the file does not hold
Unsaved ==
    Cardinality(analytics.unique_pages
                  \ (IF snapshot.kind = "json" THEN ListToSet(snapshot.data.unique_pages) ELSE {}))

C7_SubdomainCap ==
    /\ [](\A h \in DOMAIN subdomain_page_count : subdomain_page_count[h] <= 2000)
    /\ [][/\ \A h \in DOMAIN subdomain_page_count' :
                 (subdomain_page_count'[h] # Get(subdomain_page_count, h))
                     => /\ last'.op = "scraper"
                        /\ Accepted(last'.url, last'.resp, subdomain_page_count)
                        /\ h = last'.url.netloc
                        /\ subdomain_page_count'[h] = Get(subdomain_page_count, h) + 1
           /\ ((last'.op = "scraper" /\ Get(subdomain_page_count, last'.url.netloc) = 2000)
                 => /\ last'.raised = "" /\ last'.value = {}
                    /\ UNCHANGED <<analytics, subdomain_page_count>>)]_vars

\* C7 witness: one host is at the cap and a call for it came back empty,
\* while the other host is below the cap
C7_Witness ==
    /\ last.op = "scraper"
    /\ Get(subdomain_page_count, last.url.netloc) = 2000
    /\ last.value = {}
    /\ \E h \in DOMAIN subdomain_page_count : subdomain_page_count[h] = 1

\* the words the recordings hold
RecordedWords == UNION {DOMAIN r.words : r \in DOMAIN recorded}

\* the occurrences of w over all the recordings, each counted as often as made
Occurrences(w) ==
    SumOver([r \in DOMAIN recorded |-> recorded[r] * Get(r.words, w)], DOMAIN recorded)

\* C8: all_words[w] is the sum over the recordings of the occurrences of w in
\* the page's filtered words; an accepted call for a URL the store already
\* holds increases the count of each of its words and leaves unique_pages as
\* it was.
C8_AllWordsIsSum ==
    /\ [](/\ DOMAIN analytics.all_words = RecordedWords
          /\ \A w \in RecordedWords : analytics.all_words[w] = Occurrences(w))
    /\ [][(/\ last'.op = "scraper"
           /\ Accepted(last'.url, last'.resp, subdomain_page_count)
           /\ UrlDefrag(last'.url) \in analytics.unique_pages)
              => /\ analytics'.unique_pages = analytics.unique_pages
                 /\ \A w \in DOMAIN FilteredWords(last'.resp.text) :
                        analytics'.all_words[w] > Get(analytics.all_words, w)]_vars

\* C8 witness: one URL recorded twice, held once
C8_Witness ==
    /\ \E r \in DOMAIN recorded : recorded[r] = 2
    /\ Cardinality(analytics.unique_pages) = 1
    /\ last.op = "scraper"

HostAllowListed(host) ==
    \E d \in {"ics.uci.edu", "cs.uci.edu", "informatics.uci.edu", "stat.uci.edu"} :
        host = d \/ EndsWith(Chars(host), <<".">> \o Chars(d))

\* C10 as claimed: is_valid returns false for every URL whose host is outside
\* the allow-listed domains.
C10_OutsideAllowListIsInvalid ==
    (last.op = "is_valid" /\ last.raised = "" /\ ~HostAllowListed(last.url.netloc))
        => last.value = FALSE

\* the query has a parameter whose name contains one of the tokens, in any
\* letter case
HasUiParam(q) ==
    \E i \in 1..Len(q) :
        \E ui \in {"sort", "filter", "view", "tab", "page"} :
            Contains(Lower(Chars(q[i].key)), Chars(ui))

\* C11 as claimed: is_valid returns false for every URL whose query has a
\* parameter whose name contains "sort", "filter", "view", "tab" or "page" in
\* any letter case, whatever the value of the parameter, an empty or missing
\* value included.
C11_UiParamIsInvalid ==
    (last.op = "is_valid" /\ last.raised = "" /\ HasUiParam(last.url.query))
        => last.value = FALSE

=============================================================================
